---- MODULE Spec2Model ----
(***************************************************************************)
(* Model of the command-line vulnerability scanner (scanner.py).           *)
(*                                                                         *)
(* One run of main() is modelled as a state machine: argument parsing,     *)
(* file-type detection, manifest parsing, the per-dependency advisory      *)
(* query loop of scan_dependencies, the report step and the final          *)
(* sys.exit.  Everything printed is appended to `out`, every file written  *)
(* is added to `written`.                                                  *)
(***************************************************************************)
EXTENDS Integers, Sequences, FiniteSets, TLC

\* ---------------------------------------------------------------- bounds
MaxDeps == 2
MaxRecs == 2

\* ---------------------------------------------------------------- inputs
\* A dependency dictionary as the parsers produce it (parsers/base.py).
Dependencies ==
    { [name |-> "requests", version |-> "2.25.0", ecosystem |-> "pip"],
      [name |-> "flask",    version |-> "1.0",    ecosystem |-> "pip"] }

\* Vulnerability dictionaries as the advisory source returns them; the
\* 'severity' key is optional (display_results reads it with .get).
VulnRecords ==
    { [id |-> "CVE-1", severity |-> "LOW"],
      [id |-> "CVE-2", severity |-> "CRITICAL"],
      [id |-> "CVE-3", severity |-> "HIGH"],
      [id |-> "CVE-4"] }

Injective(s) == \A a, b \in DOMAIN s : a # b => s[a] # s[b]

SeqsUpTo(S, n) == UNION { [1..k -> S] : k \in 0..n }

DependencyLists == SeqsUpTo(Dependencies, MaxDeps)

VulnLists == { s \in SeqsUpTo(VulnRecords, MaxRecs) : Injective(s) }

\* What one call of OSVClient.check_vulnerability can do: return a list of
\* records (possibly empty), fail and raise, or fail and return nothing.
QueryOutcomes ==
    { [kind |-> "success", vulns |-> s] : s \in VulnLists }
        \cup { [kind |-> "raised",  vulns |-> <<>>],
               [kind |-> "failure", vulns |-> <<>>] }

FileNames == {"requirements.txt", "pom.xml", "setup.py"}

\* --format choices with the two --output cases.
ArgSets ==
    { [file |-> f, format |-> fmt, output |-> o] :
        f \in FileNames, fmt \in {"text", "json", "html"}, o \in {"", "report.out"} }

VARIABLES
    pc,             \* position in main / scan_dependencies
    args,           \* the parsed command line
    file_type,      \* result of detect_file_type
    dependencies,   \* list returned by parser.parse
    i,              \* loop index of scan_dependencies (1-based)
    results,        \* the list scan_dependencies builds
    main_results,   \* main's `results`: unset, None or the returned list
    outcomes,       \* what check_vulnerability did, per dependency queried
    out,            \* everything printed so far
    written,        \* files written by the report step
    exit_site,      \* which sys.exit ended the run
    exit_status     \* process exit status, -1 while running

vars == << pc, args, file_type, dependencies, i, results, main_results,
           outcomes, out, written, exit_site, exit_status >>

NoArgs == [file |-> "", format |-> "", output |-> ""]

Init ==
    /\ pc = "parse_arguments"
    /\ args = NoArgs
    /\ file_type = ""
    /\ dependencies = <<>>
    /\ i = 0
    /\ results = <<>>
    /\ main_results = [tag |-> "unset", list |-> <<>>]
    /\ outcomes = <<>>
    /\ out = <<>>
    /\ written = {}
    /\ exit_site = "none"
    /\ exit_status = -1

\* ------------------------------------------------------------ pure parts

\* detect_file_type: the file name decides, anything else raises.
detect_file_type(filepath) ==
    IF filepath = "requirements.txt" THEN "requirements"
    ELSE IF filepath = "pom.xml" THEN "pom"
    ELSE "ValueError"

\* dict.get(key, default)
Get(d, key, default) == IF key \in DOMAIN d THEN d[key] ELSE default

\* Python truthiness of a list.
Truthy(list) == Len(list) > 0

AppendResultAlways(res, dep, vulns) ==
    Append(res, [dependency |-> dep, vulnerabilities |-> vulns])

\* `if vulns: results.append({...})`
AppendResult(res, dep, vulns) ==
    IF Truthy(vulns)
    THEN Append(res, [dependency |-> dep, vulnerabilities |-> vulns])
    ELSE res

LoopExitsAfterFirst(idx, n) == "report"

\* The for loop of scan_dependencies continues until the list is exhausted.
AfterIteration(idx, n) == IF idx < n THEN "query" ELSE "report"

ExitCodeInverted(res) == IF Truthy(res) THEN 0 ELSE 1

\* sys.exit(1 if results else 0)
ExitCode(res) == IF Truthy(res) THEN 1 ELSE 0

RECURSIVE SumVulns(_)
\* sum(len(r['vulnerabilities']) for r in results)
SumVulns(res) ==
    IF res = <<>> THEN 0
    ELSE Len(res[1].vulnerabilities) + SumVulns(Tail(res))

\* One package block of display_results: the header line and one line per
\* vulnerability, in list order.
DisplayEntry(result) ==
    [kind  |-> "package",
     name  |-> result.dependency.name,
     version |-> result.dependency.version,
     vulns |-> [k \in 1..Len(result.vulnerabilities) |->
                  [id       |-> Get(result.vulnerabilities[k], "id", "UNKNOWN"),
                   severity |-> Get(result.vulnerabilities[k], "severity", "UNKNOWN")]]]

\* The lines display_results prints for `res`.
display_results(res) ==
    IF ~Truthy(res)
    THEN << [kind |-> "summary_header"], [kind |-> "no_vulnerabilities_found"] >>
    ELSE << [kind |-> "summary_header"],
            [kind |-> "total_packages_scanned", n |-> Len(res)],
            [kind |-> "vulnerable_packages",    n |-> Len(res)],
            [kind |-> "total_vulnerabilities",  n |-> SumVulns(res)],
            [kind |-> "vulnerabilities_found"] >>
         \o [k \in 1..Len(res) |-> DisplayEntry(res[k])]
         \o << [kind |-> "summary_footer"] >>

\* ReportGenerator documents: a function of the results handed over.
generate_json(res) == [format |-> "json", entries |-> res]
generate_html(res) == [format |-> "html", entries |-> res]

\* ---------------------------------------------------------------- actions

\* The two except clauses of main and the sys.exit they end in.
Raise(site, line) ==
    /\ out' = Append(out, line)
    /\ exit_site' = site
    /\ exit_status' = 1
    /\ pc' = "done"

\* parse_arguments: a valid command line, a usage error (argparse exits
\* with status 2) or --help (argparse exits with status 0).
ParseArguments ==
    /\ pc = "parse_arguments"
    /\ \/ \E a \in ArgSets :
            /\ args' = a
            /\ pc' = "detect"
            /\ UNCHANGED << exit_site, exit_status >>
       \/ \E st \in {0, 2} :
            /\ exit_site' = "argparse"
            /\ exit_status' = st
            /\ pc' = "done"
            /\ UNCHANGED args
    /\ UNCHANGED << file_type, dependencies, i, results, main_results,
                    outcomes, out, written >>

\* scan_dependencies, up to get_parser.
DetectFileType ==
    /\ pc = "detect"
    /\ LET t == detect_file_type(args.file)
           scanning == [kind |-> "scanning"]
       IN IF t = "ValueError"
          THEN /\ out' = out \o << scanning, [kind |-> "error"] >>
               /\ exit_site' = "exception"
               /\ exit_status' = 1
               /\ pc' = "done"
               /\ UNCHANGED file_type
          ELSE /\ out' = Append(out, scanning)
               /\ file_type' = t
               /\ pc' = "parse"
               /\ UNCHANGED << exit_site, exit_status >>
    /\ UNCHANGED << args, dependencies, i, results, main_results,
                    outcomes, written >>

\* parser.parse(filepath) and the empty-list early return.
Parse ==
    /\ pc = "parse"
    /\ \/ /\ Raise("file_not_found", [kind |-> "error_file_not_found"])
          /\ UNCHANGED << dependencies, i, main_results >>
       \/ /\ Raise("exception", [kind |-> "error"])
          /\ UNCHANGED << dependencies, i, main_results >>
       \/ \E deps \in DependencyLists :
            /\ dependencies' = deps
            /\ IF ~Truthy(deps)
               THEN /\ out' = Append(out, [kind |-> "no_dependencies_found"])
                    /\ main_results' = [tag |-> "None", list |-> <<>>]
                    /\ exit_site' = "no_dependencies"
                    /\ exit_status' = 1
                    /\ pc' = "done"
                    /\ UNCHANGED i
               ELSE /\ out' = Append(out, [kind |-> "found_dependencies", n |-> Len(deps)])
                    /\ i' = 1
                    /\ pc' = "query"
                    /\ UNCHANGED << main_results, exit_site, exit_status >>
    /\ UNCHANGED << args, file_type, results, outcomes, written >>

\* One iteration of the for loop of scan_dependencies.
QueryStep ==
    /\ pc = "query"
    /\ i <= Len(dependencies)
    /\ \E o \in QueryOutcomes :
         LET dep == dependencies[i]
             checking == [kind |-> "checking", idx |-> i, n |-> Len(dependencies)]
         IN /\ outcomes' = Append(outcomes, o)
            /\ IF o.kind = "raised"
               THEN /\ out' = out \o << checking, [kind |-> "error"] >>
                    /\ exit_site' = "exception"
                    /\ exit_status' = 1
                    /\ pc' = "done"
                    /\ UNCHANGED << i, results, main_results >>
               ELSE /\ out' = Append(out, checking)
                    /\ results' = AppendResult(results, dep, o.vulns)
                    /\ i' = i + 1
                    /\ pc' = AfterIteration(i, Len(dependencies))
                    /\ main_results' =
                         IF pc' = "report"
                         THEN [tag |-> "list", list |-> results']
                         ELSE main_results
                    /\ UNCHANGED << exit_site, exit_status >>
    /\ UNCHANGED << args, file_type, dependencies, written >>

\* args.format == 'text'
ReportText ==
    /\ pc = "report"
    /\ args.format = "text"
    /\ out' = out \o display_results(main_results.list)
    /\ pc' = "verdict"
    /\ UNCHANGED << args, file_type, dependencies, i, results, main_results,
                    outcomes, written, exit_site, exit_status >>

\* args.format == 'json': to the file named by --output, else to stdout.
ReportJson ==
    /\ pc = "report"
    /\ args.format = "json"
    /\ LET output == generate_json(main_results.list)
       IN IF args.output # ""
          THEN \/ /\ written' = written \cup {[path |-> args.output, content |-> output]}
                  /\ out' = Append(out, [kind |-> "report_saved"])
                  /\ pc' = "verdict"
                  /\ UNCHANGED << exit_site, exit_status >>
               \/ /\ Raise("exception", [kind |-> "error"])
                  /\ UNCHANGED written
          ELSE /\ out' = Append(out, [kind |-> "json_document", content |-> output])
               /\ pc' = "verdict"
               /\ UNCHANGED << written, exit_site, exit_status >>
    /\ UNCHANGED << args, file_type, dependencies, i, results, main_results,
                    outcomes >>

\* args.format == 'html': always to a file.
ReportHtml ==
    /\ pc = "report"
    /\ args.format = "html"
    /\ LET output == generate_html(main_results.list)
           output_path == IF args.output # "" THEN args.output
                          ELSE "vulnerability_report.html"
       IN \/ /\ written' = written \cup {[path |-> output_path, content |-> output]}
             /\ out' = Append(out, [kind |-> "report_saved"])
             /\ pc' = "verdict"
             /\ UNCHANGED << exit_site, exit_status >>
          \/ /\ Raise("exception", [kind |-> "error"])
             /\ UNCHANGED written
    /\ UNCHANGED << args, file_type, dependencies, i, results, main_results,
                    outcomes >>

\* sys.exit(1 if results else 0)
Verdict ==
    /\ pc = "verdict"
    /\ exit_status' = ExitCode(main_results.list)
    /\ exit_site' = "verdict"
    /\ pc' = "done"
    /\ UNCHANGED << args, file_type, dependencies, i, results, main_results,
                    outcomes, out, written >>

Next ==
    \/ ParseArguments
    \/ DetectFileType
    \/ Parse
    \/ QueryStep
    \/ ReportText
    \/ ReportJson
    \/ ReportHtml
    \/ Verdict

Spec == Init /\ [][Next]_vars


\* ------------------------------------------------------ shared vocabulary

\* The run has ended.
Done == pc = "done"

\* main reached its final sys.exit(1 if results else 0).
Completed == Done /\ exit_site = "verdict"

\* Positions of the input list whose query returned at least one record.
VulnPositions == { k \in DOMAIN outcomes : Len(outcomes[k].vulns) > 0 }

\* Positions whose query failed, by raising or otherwise.
FailedPositions == { k \in DOMAIN outcomes : outcomes[k].kind # "success" }

\* The j-th smallest vulnerable position.
NthVuln(j) ==
    CHOOSE k \in VulnPositions :
        Cardinality({ m \in VulnPositions : m < k }) = j - 1

ReportKinds ==
    { "summary_header", "no_vulnerabilities_found", "total_packages_scanned",
      "vulnerable_packages", "total_vulnerabilities", "vulnerabilities_found",
      "package", "summary_footer", "json_document", "report_saved" }

\* Some report output exists: printed text, a printed document or a file.
ReportProduced ==
    \/ written # {}
    \/ \E k \in DOMAIN out : out[k].kind \in ReportKinds

\* CRITICAL > HIGH > MEDIUM > LOW > UNKNOWN
SeverityRank(sev) ==
    CASE sev = "CRITICAL" -> 4
      [] sev = "HIGH"     -> 3
      [] sev = "MEDIUM"   -> 2
      [] sev = "LOW"      -> 1
      [] OTHER            -> 0

\* Order of the advisory ids used here.
IdRank(id) ==
    CASE id = "CVE-1" -> 1
      [] id = "CVE-2" -> 2
      [] id = "CVE-3" -> 3
      [] id = "CVE-4" -> 4
      [] OTHER        -> 5

\* ------------------------------------------------------------------ C1
\* C1: the entries built by scan_dependencies are exactly the dependencies
\* whose query returned at least one record, with those records, in input
\* order; once the list is returned it covers the whole input.
EntriesAreVulnerableSubsequence ==
    /\ Len(results) = Cardinality(VulnPositions)
    /\ \A j \in DOMAIN results :
         /\ results[j].dependency = dependencies[NthVuln(j)]
         /\ results[j].vulnerabilities = outcomes[NthVuln(j)].vulns
    /\ main_results.tag = "list" =>
         /\ main_results.list = results
         /\ Len(outcomes) = Len(dependencies)

\* A finished scan of two dependencies whose first was clean and whose
\* second was vulnerable.
WitnessCleanThenVulnerable ==
    /\ Completed
    /\ Len(dependencies) = 2
    /\ outcomes[1] = [kind |-> "success", vulns |-> <<>>]
    /\ Len(outcomes[2].vulns) > 0
    /\ Len(main_results.list) = 1

\* ------------------------------------------------------------------ C2
\* C2: a query that fails never aborts the scan: the remaining dependencies
\* are still queried and the scan returns a result.
QueryFailureNeverAborts ==
    (Done /\ \E k \in DOMAIN outcomes : outcomes[k].kind = "raised") =>
        /\ Len(outcomes) = Len(dependencies)
        /\ main_results.tag = "list"

\* ------------------------------------------------------------------ C3
\* C3: the 'Total packages scanned' figure equals the number of input
\* dependencies.
ScannedCountIsInputLength ==
    \A k \in DOMAIN out :
        out[k].kind = "total_packages_scanned" => out[k].n = Len(dependencies)

\* ------------------------------------------------------------------ C4
\* C4: a scan that runs to completion exits with status 1 exactly when some
\* dependency has at least one record, and with status 0 exactly when none
\* has, whatever queries failed.
VerdictIffVulnerable ==
    Completed =>
        /\ exit_status = 1 <=> VulnPositions # {}
        /\ exit_status = 0 <=> VulnPositions = {}

\* A completed scan with one failed query and one vulnerable dependency,
\* ending with the vulnerable status.
WitnessVulnerableDespiteFailure ==
    /\ Completed
    /\ FailedPositions # {}
    /\ VulnPositions # {}
    /\ exit_status = 1

\* ------------------------------------------------------------------ C5
\* The statuses main gives a completed scan: without and with entries.
CleanStatus == ExitCode(<< >>)
VulnerableStatus ==
    ExitCode(<< [dependency |-> [name |-> "requests", version |-> "2.25.0",
                                 ecosystem |-> "pip"],
                 vulnerabilities |-> << [id |-> "CVE-1", severity |-> "LOW"] >>] >>)

\* C5: a run that ends in an error or without a report ends with a non-zero
\* status different from both the vulnerable status and the clean status.
ErrorStatusIsDistinct ==
    (Done /\ exit_site \in {"exception", "file_not_found", "no_dependencies"}) =>
        /\ exit_status # 0
        /\ exit_status # CleanStatus
        /\ exit_status # VulnerableStatus

\* ------------------------------------------------------------------ C6
\* C6: a dependency listed more than once contributes one entry only.
NoDuplicateEntries ==
    \A j, k \in DOMAIN results :
        j # k => results[j].dependency # results[k].dependency

\* ------------------------------------------------------------------ C7
\* C7: when the parser returns an empty list the run issues no query,
\* prints the no-vulnerabilities message and ends with the clean status.
EmptyInputIsClean ==
    (Done /\ \E k \in DOMAIN out : out[k].kind = "no_dependencies_found") =>
        /\ outcomes = <<>>
        /\ \E k \in DOMAIN out : out[k].kind = "no_vulnerabilities_found"
        /\ exit_status = CleanStatus

\* ------------------------------------------------------------------ C8
\* C8: every dependency whose query failed is named in a failure notice of
\* the report and is not among the entries counted as vulnerable.
FailedQueriesAreReported ==
    Done =>
        \A k \in FailedPositions :
            /\ \E m \in DOMAIN out :
                 /\ out[m].kind = "failure_notice"
                 /\ out[m].name = dependencies[k].name
            /\ Len(results) = Cardinality(VulnPositions \ FailedPositions)

\* ------------------------------------------------------------------ C9
\* C9: within each rendered package the vulnerability lines are sorted by
\* severity descending, then by id ascending.
RenderedSortedBySeverity ==
    \A k \in DOMAIN out :
        out[k].kind = "package" =>
            \A a, b \in DOMAIN out[k].vulns :
                a < b =>
                    LET ra == SeverityRank(out[k].vulns[a].severity)
                        rb == SeverityRank(out[k].vulns[b].severity)
                    IN \/ ra > rb
                       \/ /\ ra = rb
                          /\ IdRank(out[k].vulns[a].id) <= IdRank(out[k].vulns[b].id)

\* ------------------------------------------------------------------ C10
\* C10: no report output exists before every dependency of the input has
\* been queried and its query has returned, and a query phase that ends in
\* an error leaves no report at all.
NoReportBeforeQueriesFinish ==
    ReportProduced =>
        /\ Len(outcomes) = Len(dependencies)
        /\ \A k \in DOMAIN outcomes : outcomes[k].kind # "raised"
        /\ main_results.tag = "list"

\* A report exists for a two-dependency input, both queries having returned.
WitnessReportAfterAllQueries ==
    /\ ReportProduced
    /\ Len(dependencies) = 2
    /\ Len(outcomes) = 2

====
